---- MODULE Spec2Model ----
(***************************************************************************)
(* A model of src/doubly_stochastic_dgp/dgp.py: the layer-stack builder    *)
(* (DGP.__init__), the propagation engine (DGP_Base.propagate) and the     *)
(* ELBO assembler (DGP_Base._build_likelihood).                            *)
(*                                                                         *)
(* Matrices are concrete integer matrices [nr, nc, e].  The data matrices  *)
(* are drawn from the class whose columns are mutually orthogonal: for     *)
(* that class the right-singular vectors numpy.linalg.svd returns are      *)
(* signed unit vectors ordered by decreasing column norm, so the SVD is    *)
(* computed exactly; the class is closed under the projections W built     *)
(* here.  The order among equal singular values and the sign of each       *)
(* singular vector are not fixed by the SVD: both are chosen               *)
(* nondeterministically.                                                   *)
(***************************************************************************)
EXTENDS Integers, Sequences, FiniteSets, TLC

VARIABLES
    \* ---- DGP.__init__ (layer stack builder)
    kernels,        \* argument: sequence of kernels [id, input_dim]
    X,              \* argument: data matrix
    Z,              \* argument: inducing locations
    Yshape,         \* argument Y, by its shape <<rows, cols>>
    arg_num_outputs,\* argument num_outputs (None or a number)
    mean_function,  \* argument: the final layer's mean function
    num_outputs,    \* local, line 143
    layers,         \* local list of SVGP_Layer
    X_running,      \* local
    Z_running,      \* local
    idx,            \* position of the zip loop of line 150 (1-based pair index)
    pc,             \* "idle" | "loop" | "done" | "raised"
    raised,         \* the exception that left __init__, or "none"
    \* ---- DGP_Base.propagate
    p_in,           \* the call's arguments [layers, X, full_cov, S, zs]
    p_out,          \* the returned [Fs, Fmeans, Fvars], or None before the call
    \* ---- DGP_Base.__init__ / _build_likelihood
    m_in,           \* constructor arguments and the environment's numbers
    m_self,         \* the model object's fields, or None
    m_out,          \* what _build_likelihood computed, or None
    mpc             \* "idle" | "new" | "built" | "evaluated"

vars == <<kernels, X, Z, Yshape, arg_num_outputs, mean_function, num_outputs,
          layers, X_running, Z_running, idx, pc, raised,
          p_in, p_out, m_in, m_self, m_out, mpc>>

buildVars == <<kernels, X, Z, Yshape, arg_num_outputs, mean_function, num_outputs,
               layers, X_running, Z_running, idx, pc, raised>>
propVars == <<p_in, p_out>>
elboVars == <<m_in, m_self, m_out, mpc>>

\* ------------------------------------------------------------------ bounds
MaxLayers == 3
MaxDim == 3
MaxRows == 2
MaxInducing == 2
MaxOut == 2
MaxS == 2
MaxBatch == 2
MaxData == 10

\* An optional number argument: None, or Some(v).
None == <<>>

Some(v) == <<v>>

\* Python truthiness of an optional number: None and 0 are falsy.
Truthy(o) == o # None /\ o[1] # 0

\* `a or b` of Python, a an optional number.
PyOr(a, b) == IF Truthy(a) THEN a[1] ELSE b

Min(a, b) == IF a < b THEN a ELSE b

\* ------------------------------------------------------------------ matrices
Mat(n, c, f(_, _)) == [nr |-> n, nc |-> c, e |-> [i \in 1..n, j \in 1..c |-> f(i, j)]]

NoMatrix == [nr |-> 0, nc |-> 0, e |-> [i \in {}, j \in {} |-> 0]]

RECURSIVE SumTo(_, _)
SumTo(n, f) == IF n = 0 THEN 0 ELSE f[n] + SumTo(n - 1, f)

\* numpy.ndarray.dot for 2-D operands; defined when A.nc = B.nr.
Dot(A, B) ==
    LET cell(i, j) == SumTo(A.nc, [k \in 1..A.nc |-> A.e[i, k] * B.e[k, j]])
    IN  Mat(A.nr, B.nc, cell)

DotDefined(A, B) == A.nc = B.nr

\* M.T
Transpose(A) ==
    LET cell(i, j) == A.e[j, i]
    IN  Mat(A.nc, A.nr, cell)

\* M[:k, :]  (a slice past the end stops at the end)
TakeRows(A, k) ==
    LET cell(i, j) == A.e[i, j]
    IN  Mat(Min(k, A.nr), A.nc, cell)

\* np.eye(n)
Eye(n) ==
    LET cell(i, j) == IF i = j THEN 1 ELSE 0
    IN  Mat(n, n, cell)

\* np.zeros((n, c))
Zeros(n, c) ==
    LET cell(i, j) == 0
    IN  Mat(n, c, cell)

\* np.concatenate([A, B], 1)
Concatenate1(A, B) ==
    LET cell(i, j) == IF j <= A.nc THEN A.e[i, j] ELSE B.e[i, j - A.nc]
    IN  Mat(A.nr, A.nc + B.nc, cell)

ColNorm2(A, j) == SumTo(A.nr, [i \in 1..A.nr |-> A.e[i, j] * A.e[i, j]])

\* The orderings of the columns a singular value decomposition may list the
\* right-singular vectors in: the r = min(rows, cols) largest column norms,
\* largest first.
SvdOrders(A) ==
    LET r == Min(A.nr, A.nc)
        norm2 == [j \in 1..A.nc |-> ColNorm2(A, j)]
    IN  { o \in [1..r -> 1..A.nc] :
            /\ \A a, b \in 1..r : a < b => (o[a] # o[b] /\ norm2[o[a]] >= norm2[o[b]])
            /\ \A j \in 1..A.nc :
                   (\A a \in 1..r : o[a] # j) => \A a \in 1..r : norm2[o[a]] >= norm2[j] }

SvdSigns(A) == [1..Min(A.nr, A.nc) -> {1, -1}]

\* The third result of np.linalg.svd(A, full_matrices=False) for a matrix with
\* mutually orthogonal columns: min(rows, cols) rows, row k the signed unit
\* vector of the column with the k-th largest norm.
SvdVh(A, order, sign) ==
    LET cell(i, j) == IF order[i] = j THEN sign[i] ELSE 0
    IN  Mat(Min(A.nr, A.nc), A.nc, cell)

\* ------------------------------------------------------------------ inputs
Kernel(i, d) == [id |-> i, input_dim |-> d]

KernelLists ==
    UNION { { [i \in 1..n |-> Kernel(i, ds[i])] : ds \in [1..n -> 1..MaxDim] }
            : n \in 0..MaxLayers }

\* the column counts of the data: the first kernel's input_dim, or the next
\* dimension (wrapping at MaxDim)
DataColumns(ks) ==
    IF Len(ks) = 0 THEN {1}
    ELSE {ks[1].input_dim, (ks[1].input_dim % MaxDim) + 1}

\* Data with mutually orthogonal columns: row i is i times a unit vector.
XData(n, c) ==
    LET cell(i, j) == IF ((i - 1) % c) + 1 = j THEN i ELSE 0
    IN  Mat(n, c, cell)

ZData(m, c) ==
    LET cell(i, j) == 2 * i + j
    IN  Mat(m, c, cell)

\* ------------------------------------------------------------------ mean functions and layers
Identity == [type |-> "Identity", A |-> NoMatrix, trainable |-> FALSE]

Linear(W) == [type |-> "Linear", A |-> W, trainable |-> TRUE]

set_trainable(mf, flag) == [mf EXCEPT !.trainable = flag]

CallerMean(t) == [type |-> t, A |-> NoMatrix, trainable |-> FALSE]

SVGP_Layer(kern, Zl, nout, mf) ==
    [kern |-> kern, Z |-> Zl, num_outputs |-> nout, mean_function |-> mf]

\* ------------------------------------------------------------------ DGP.__init__
\* faulty variant: the transpose of line 160 forgotten
PcaW_NoTranspose(V, dim_out) == TakeRows(V, dim_out)

\* lines 158-164: the weight of the Linear mean function
PcaW(V, dim_out) == Transpose(TakeRows(V, dim_out))

\* the weights lines 159-160 may produce, one per outcome of the decomposition
PcaWs(Xr, dim_out) ==
    { PcaW(SvdVh(Xr, order, sign), dim_out) : order \in SvdOrders(Xr), sign \in SvdSigns(Xr) }

PadW(dim_in, dim_out) == Concatenate1(Eye(dim_in), Zeros(dim_in, dim_out - dim_in))

\* lines 154-167
MeanFor(dim_in, dim_out, W) ==
    IF dim_in = dim_out THEN Identity ELSE set_trainable(Linear(W), FALSE)

\* faulty variant: the layer is given its kernel's own input dimension as output dimension
InnerLayerOf_DimIn(kern_in, Zr, dim_in, dim_out, mf) == SVGP_Layer(kern_in, Zr, dim_in, mf)

\* line 169
InnerLayerOf(kern_in, Zr, dim_in, dim_out, mf) == SVGP_Layer(kern_in, Zr, dim_out, mf)

\* faulty variant: the running matrices are never projected
Project_Skip(M, dim_in, dim_out, W) == M

\* lines 171-173
Project(M, dim_in, dim_out, W) == IF dim_in # dim_out THEN Dot(M, W) ELSE M

\* faulty variant: the final layer is dimension-matched like the inner ones
FinalLayerOf_Matched(ks, Zr, nout, mf) ==
    SVGP_Layer(ks[Len(ks)], Zr, nout, IF ks[Len(ks)].input_dim = nout THEN Identity ELSE mf)

\* line 177
FinalLayerOf(ks, Zr, nout, mf) == SVGP_Layer(ks[Len(ks)], Zr, nout, mf)

\* line 143
ResolveNumOutputs(arg, yshape) == PyOr(arg, yshape[2])

BuildInit ==
    /\ kernels \in KernelLists
    \* X and Z share their column count, which is the first kernel's input_dim
    \* or the next dimension; the inducing set is empty or full
    /\ \E n \in 1..MaxRows, c \in DataColumns(kernels), m \in {0, MaxInducing} :
          /\ X = XData(n, c)
          /\ Z = ZData(m, c)
          /\ \E yc \in {1, MaxOut} : Yshape = <<n, yc>>
    \* the defaults, or a supplied output dimension (not a column count of Y)
    \* and a supplied mean function
    /\ \E call \in { <<None, CallerMean("Zero")>>, <<Some(MaxOut + 1), CallerMean("Constant")>> } :
          arg_num_outputs = call[1] /\ mean_function = call[2]
    /\ num_outputs = ResolveNumOutputs(arg_num_outputs, Yshape)
    /\ layers = <<>>
    /\ X_running = X
    /\ Z_running = Z
    /\ idx = 1
    /\ pc = "loop"
    /\ raised = "none"
    /\ p_in = None /\ p_out = None
    /\ m_in = None /\ m_self = None /\ m_out = None /\ mpc = "idle"

buildArgs == <<kernels, X, Z, Yshape, arg_num_outputs, mean_function, num_outputs,
               p_in, p_out, m_in, m_self, m_out, mpc>>

\* faulty variant: the projection of lines 171-173 moved before the layer of line 169
InnerStep_ProjectFirst(W) ==
    LET dim_in == kernels[idx].input_dim
        dim_out == kernels[idx + 1].input_dim
        mf == MeanFor(dim_in, dim_out, W)
    IN  /\ IF dim_in # dim_out /\ ~DotDefined(Z_running, W)
           THEN /\ pc' = "raised"
                /\ raised' = "ValueError"
                /\ UNCHANGED <<layers, X_running, Z_running, idx>>
           ELSE /\ Z_running' = Project(Z_running, dim_in, dim_out, W)
                /\ X_running' = Project(X_running, dim_in, dim_out, W)
                /\ layers' = Append(layers, InnerLayerOf(kernels[idx], Z_running', dim_in, dim_out, mf))
                /\ idx' = idx + 1
                /\ UNCHANGED <<pc, raised>>
        /\ UNCHANGED buildArgs

\* One iteration of the loop of lines 150-173, for the candidate W.
InnerStep(W) ==
    LET dim_in == kernels[idx].input_dim
        dim_out == kernels[idx + 1].input_dim
        mf == MeanFor(dim_in, dim_out, W)
    IN  /\ layers' = Append(layers, InnerLayerOf(kernels[idx], Z_running, dim_in, dim_out, mf))
        /\ IF dim_in # dim_out /\ ~DotDefined(Z_running, W)
           THEN \* Z_running.dot(W) raises ValueError (shapes not aligned)
                /\ pc' = "raised"
                /\ raised' = "ValueError"
                /\ UNCHANGED <<X_running, Z_running, idx>>
           ELSE /\ Z_running' = Project(Z_running, dim_in, dim_out, W)
                /\ X_running' = Project(X_running, dim_in, dim_out, W)
                /\ idx' = idx + 1
                /\ UNCHANGED <<pc, raised>>
        /\ UNCHANGED buildArgs

\* lines 150-173 with dim_in == dim_out
InnerLayerSame ==
    /\ pc = "loop" /\ idx < Len(kernels)
    /\ kernels[idx].input_dim = kernels[idx + 1].input_dim
    /\ InnerStep(NoMatrix)

\* lines 150-173 with dim_in > dim_out
InnerLayerDown ==
    /\ pc = "loop" /\ idx < Len(kernels)
    /\ kernels[idx].input_dim > kernels[idx + 1].input_dim
    /\ \E W \in PcaWs(X_running, kernels[idx + 1].input_dim) : InnerStep(W)

\* lines 150-173 with dim_in < dim_out
InnerLayerUp ==
    /\ pc = "loop" /\ idx < Len(kernels)
    /\ kernels[idx].input_dim < kernels[idx + 1].input_dim
    /\ InnerStep(PadW(kernels[idx].input_dim, kernels[idx + 1].input_dim))

\* lines 176-179: the final layer, then DGP_Base.__init__ stores the layers
FinalLayer ==
    /\ pc = "loop" /\ Len(kernels) >= 1 /\ idx = Len(kernels)
    /\ layers' = Append(layers, FinalLayerOf(kernels, Z_running, num_outputs, mean_function))
    /\ pc' = "done"
    /\ UNCHANGED <<X_running, Z_running, idx, raised>>
    /\ UNCHANGED buildArgs

\* line 177 with no kernel: kernels[-1] raises IndexError
NoKernel ==
    /\ pc = "loop" /\ Len(kernels) = 0
    /\ pc' = "raised"
    /\ raised' = "IndexError"
    /\ UNCHANGED <<layers, X_running, Z_running, idx>>
    /\ UNCHANGED buildArgs

BuildNext ==
    \/ InnerLayerSame
    \/ InnerLayerDown
    \/ InnerLayerUp
    \/ FinalLayer
    \/ NoKernel

SpecBuild == BuildInit /\ [][BuildNext]_vars

\* ------------------------------------------------------------------ DGP_Base.propagate
\* A tensor is known by its shape and by how it was obtained.
InputTensor(n, d) == [kind |-> "input", shape |-> <<n, d>>]

\* line 57: tf.tile(tf.expand_dims(X, 0), [S, 1, 1])
Tile(Xin, S) == [kind |-> "tile", of |-> Xin, shape |-> <<S>> \o Xin.shape]

\* an entry of zs
ZNone == [kind |-> "None", k |-> 0]

ZTensor(k) == [kind |-> "z", k |-> k]

\* A layer as the propagation engine sees it.
StackLayer(i, d) == [id |-> i, num_outputs |-> d]

\* layer.sample_from_conditional(F, z=z, full_cov=full_cov): the sample, the mean
\* and the variance, each with the leading axes of F and the layer's output
\* dimension; the variance is over pairs of points under full_cov.
sample_from_conditional(layer, F, z, full_cov) ==
    LET call == [layer |-> layer.id, input |-> F, z |-> z, full_cov |-> full_cov]
        shape == <<F.shape[1], F.shape[2], layer.num_outputs>>
    IN  << [kind |-> "sample", call |-> call, shape |-> shape],
           [kind |-> "mean", call |-> call, shape |-> shape],
           [kind |-> "var", call |-> call,
            shape |-> IF full_cov
                      THEN <<F.shape[1], F.shape[2], F.shape[2], layer.num_outputs>>
                      ELSE shape] >>

\* an optional list is falsy when None or empty
TruthyList(o) == o # None /\ Len(o[1]) > 0

\* [None, ] * n
RECURSIVE Repeat(_, _)
Repeat(v, n) == IF n = 0 THEN <<>> ELSE <<v>> \o Repeat(v, n - 1)

\* line 62: zs or [None, ] * len(self.layers)
DefaultZs(zs, self_layers) == IF TruthyList(zs) THEN zs[1] ELSE Repeat(ZNone, Len(self_layers))

\* faulty variant: the next layer is fed the mean of the previous one
NextInput_Mean(result) == result[2]

\* line 64: F is rebound to the sample the layer returned
NextInput(result) == result[1]

\* lines 63-68: the loop over zip(self.layers, zs), from pair k on
RECURSIVE PropagateLoop(_, _, _, _, _, _)
PropagateLoop(self_layers, zs, full_cov, k, F, acc) ==
    IF k > Min(Len(self_layers), Len(zs))
    THEN acc
    ELSE LET result == sample_from_conditional(self_layers[k], F, zs[k], full_cov)
         IN  PropagateLoop(self_layers, zs, full_cov, k + 1, NextInput(result),
                           [Fs |-> Append(acc.Fs, result[1]),
                            Fmeans |-> Append(acc.Fmeans, result[2]),
                            Fvars |-> Append(acc.Fvars, result[3])])

\* faulty variant: only the last layer's triple is kept
propagate_KeepLast(self_layers, Xin, full_cov, S, zs) ==
    LET all == PropagateLoop(self_layers, DefaultZs(zs, self_layers), full_cov, 1, Tile(Xin, S),
                             [Fs |-> <<>>, Fmeans |-> <<>>, Fvars |-> <<>>])
        n == Len(all.Fs)
    IN  IF n = 0 THEN all
        ELSE [Fs |-> <<all.Fs[n]>>, Fmeans |-> <<all.Fmeans[n]>>, Fvars |-> <<all.Fvars[n]>>]

\* lines 56-70
propagate(self_layers, Xin, full_cov, S, zs) ==
    PropagateLoop(self_layers, DefaultZs(zs, self_layers), full_cov, 1, Tile(Xin, S),
                  [Fs |-> <<>>, Fmeans |-> <<>>, Fvars |-> <<>>])

\* lines 73-75
build_predict(self_layers, Xin, full_cov, S) ==
    LET r == propagate(self_layers, Xin, full_cov, S, None)
    IN  <<r.Fmeans[Len(r.Fmeans)], r.Fvars[Len(r.Fvars)]>>

\* the layer stacks propagate is run on: 1..MaxLayers layers, any output dimensions
Stacks ==
    UNION { { [i \in 1..n |-> StackLayer(i, ds[i])] : ds \in [1..n -> 1..MaxOut] }
            : n \in 1..MaxLayers }

\* the zs arguments: None, or a list of 0..MaxLayers+1 tensors
ZsArgs == {None} \cup { Some([k \in 1..n |-> ZTensor(k)]) : n \in 0..(MaxLayers + 1) }

buildIdle ==
    /\ kernels = <<>> /\ X = NoMatrix /\ Z = NoMatrix /\ Yshape = <<0, 0>>
    /\ arg_num_outputs = None /\ mean_function = CallerMean("Zero") /\ num_outputs = 0
    /\ layers = <<>> /\ X_running = NoMatrix /\ Z_running = NoMatrix
    /\ idx = 1 /\ pc = "idle" /\ raised = "none"

PropInit ==
    /\ buildIdle
    /\ \E ls \in Stacks, n \in 1..MaxBatch, d \in 1..MaxDim, S \in 1..MaxS,
          fc \in BOOLEAN, zs \in ZsArgs :
          p_in = [layers |-> ls, X |-> InputTensor(n, d), full_cov |-> fc, S |-> S, zs |-> zs]
    /\ p_out = None
    /\ m_in = None /\ m_self = None /\ m_out = None /\ mpc = "idle"

\* a call of propagate
Propagate ==
    /\ p_out = None
    /\ p_out' = Some(propagate(p_in.layers, p_in.X, p_in.full_cov, p_in.S, p_in.zs))
    /\ UNCHANGED <<p_in, buildVars, elboVars>>

PropNext == Propagate

SpecProp == PropInit /\ [][PropNext]_vars

\* ------------------------------------------------------------------ DGP_Base.__init__, _build_likelihood
Abs(a) == IF a < 0 THEN 0 - a ELSE a

RECURSIVE Gcd(_, _)
Gcd(a, b) == IF b = 0 THEN a ELSE Gcd(b, a % b)

\* Exact fractions in lowest terms stand for the floating-point scalars.
Rat(n, d) ==
    LET g == Gcd(Abs(n), d)
    IN  [num |-> n \div g, den |-> d \div g]

RatMul(a, b) == Rat(a.num * b.num, a.den * b.den)

RatAdd(a, b) == Rat(a.num * b.den + b.num * a.den, a.den * b.den)

RatSub(a, b) == Rat(a.num * b.den - b.num * a.den, a.den * b.den)

RatEq(a, b) == a.num * b.den = b.num * a.den

RatInt(k) == Rat(k, 1)

\* Minibatch(X, minibatch_size, seed=0) / DataHolder(X): the rows a batch holds
Minibatch(rows, minibatch_size) == [kind |-> "Minibatch", rows |-> minibatch_size]

DataHolder(rows) == [kind |-> "DataHolder", rows |-> rows]

\* faulty variant: num_data defaults to the minibatch size
BaseNumData_Batch(num_data, rows, minibatch_size) ==
    PyOr(num_data, IF Truthy(minibatch_size) THEN minibatch_size[1] ELSE rows)

\* line 43: num_data or X.shape[0]
BaseNumData(num_data, rows, minibatch_size) == PyOr(num_data, rows)

\* lines 44-49
BaseData(rows, minibatch_size) ==
    IF Truthy(minibatch_size) THEN Minibatch(rows, minibatch_size[1]) ELSE DataHolder(rows)

\* layer.KL(): a number of the layer's own
KL(layer, seed) == layer.id + seed

\* likelihood.variational_expectations(Fmean, Fvar, Y): one number per sample,
\* point and output dimension, remembered with the arguments it was given
variational_expectations(Fmean, Fvar, Y, seed) ==
    [args |-> <<Fmean, Fvar, Y>>,
     shape |-> Fmean.shape,
     v |-> [s \in 1..Fmean.shape[1], n \in 1..Fmean.shape[2], d \in 1..Fmean.shape[3] |->
               0 - (seed + s * n + 2 * d + ((s * d) % 2))]]

\* tf.reduce_mean(t, 0) of a rank-3 tensor: a matrix of fractions
reduce_mean0(t) ==
    [n \in 1..t.shape[2], d \in 1..t.shape[3] |->
        Rat(SumTo(t.shape[1], [s \in 1..t.shape[1] |-> t.v[s, n, d]]), t.shape[1])]

\* the sum of the fractions f[1], ..., f[n]
RECURSIVE RatSumTo(_, _)
RatSumTo(n, f) == IF n = 0 THEN RatInt(0) ELSE RatAdd(f[n], RatSumTo(n - 1, f))

\* tf.reduce_sum(m) of an rows x cols matrix of fractions
reduce_sum(m, rows, cols) ==
    RatSumTo(rows, [n \in 1..rows |-> RatSumTo(cols, [d \in 1..cols |-> m[n, d]])])

\* lines 77-84
E_log_p_Y(self, Xb, Yb, seed) ==
    LET pred == build_predict(self.layers, Xb, FALSE, self.num_samples)
        var_exp == variational_expectations(pred[1], pred[2], Yb, seed)
    IN  [var_exp |-> var_exp, value |-> reduce_mean0(var_exp),
         rows |-> var_exp.shape[2], cols |-> var_exp.shape[3]]

\* line 89: tf.reduce_sum([layer.KL() for layer in self.layers])
TotalKL(self_layers, seed) ==
    SumTo(Len(self_layers), [i \in 1..Len(self_layers) |-> KL(self_layers[i], seed)])

\* lines 90-91
Scale(num_data, batch_rows) == Rat(num_data, batch_rows)

\* faulty variant: the KL term is rescaled with the likelihood term
Objective_ScaledKL(L, scale, KLsum) == RatMul(RatSub(L, RatInt(KLsum)), scale)

\* line 92: L * scale - KL
Objective(L, scale, KLsum) == RatSub(RatMul(L, scale), RatInt(KLsum))

\* the stacks the ELBO is assembled over: 1..MaxLayers layers of one output dimension
ElboStacks == { [i \in 1..n |-> StackLayer(i, d)] : n \in 1..MaxLayers, d \in 1..MaxOut }

ElboInit ==
    /\ buildIdle
    /\ p_in = None /\ p_out = None
    /\ \E rows \in 1..MaxData, d \in {MaxDim}, S \in 1..MaxS, ls \in ElboStacks, seed \in {0, 1} :
       \E mb \in {None} \cup { Some(b) : b \in 1..rows },
          nd \in {None, Some(rows), Some(2 * rows)} :
          m_in = [X |-> InputTensor(rows, d), Y |-> InputTensor(rows, ls[Len(ls)].num_outputs),
                  layers |-> ls, minibatch_size |-> mb, num_samples |-> S, num_data |-> nd,
                  seed |-> seed]
    /\ m_self = None
    /\ m_out = None
    /\ mpc = "new"

\* DGP_Base.__init__, lines 37-53
BaseInit ==
    /\ mpc = "new"
    /\ m_self' = Some([num_samples |-> m_in.num_samples,
                       num_data |-> BaseNumData(m_in.num_data, m_in.X.shape[1], m_in.minibatch_size),
                       X |-> BaseData(m_in.X.shape[1], m_in.minibatch_size),
                       Y |-> BaseData(m_in.Y.shape[1], m_in.minibatch_size),
                       layers |-> m_in.layers])
    /\ mpc' = "built"
    /\ UNCHANGED <<m_in, m_out, buildVars, propVars>>

\* _build_likelihood, lines 86-92, on the current batch
BuildLikelihood ==
    /\ mpc = "built"
    /\ LET self == m_self[1]
           Xb == InputTensor(self.X.rows, m_in.X.shape[2])
           Yb == InputTensor(self.Y.rows, m_in.Y.shape[2])
           E == E_log_p_Y(self, Xb, Yb, m_in.seed)
           L == reduce_sum(E.value, E.rows, E.cols)
           KLsum == TotalKL(self.layers, m_in.seed)
           scale == Scale(self.num_data, Xb.shape[1])
       IN  m_out' = Some([E |-> E, L |-> L, KL |-> KLsum, scale |-> scale,
                          objective |-> Objective(L, scale, KLsum)])
    /\ mpc' = "evaluated"
    /\ UNCHANGED <<m_in, m_self, buildVars, propVars>>

ElboNext ==
    \/ BaseInit
    \/ BuildLikelihood

SpecElbo == ElboInit /\ [][ElboNext]_vars

\* ================================================================== claims on DGP.__init__
\* The builder's documented preconditions.
ColumnsMatch == Len(kernels) >= 1 /\ X.nc = kernels[1].input_dim /\ Z.nc = kernels[1].input_dim

EnoughRows ==
    \A i \in 1..(Len(kernels) - 1) :
        kernels[i].input_dim > kernels[i + 1].input_dim => X.nr >= kernels[i + 1].input_dim

DimIn(i) == kernels[i].input_dim
DimOut(i) == kernels[i + 1].input_dim

\* the inner layers built so far
InnerBuilt == { i \in 1..Len(layers) : i < Len(kernels) }

\* a step of the loop that appended inner layer idx
InnerAppended == pc = "loop" /\ idx < Len(kernels) /\ Len(layers') = Len(layers) + 1

\* a step of the loop that completed transition idx
TransitionDone == InnerAppended /\ idx' = idx + 1

\* C1: construction yields exactly one layer per kernel, in kernel order, layer
\* i holding kernel i and declaring as its output dimension the input_dim of
\* kernel i+1; under the builder's preconditions construction never raises.
C1_LayersMatchKernels ==
    /\ Len(layers) <= Len(kernels)
    /\ \A i \in 1..Len(layers) : layers[i].kern = kernels[i]
    /\ \A i \in InnerBuilt : layers[i].num_outputs = DimOut(i)
    /\ pc = "done" => Len(layers) = Len(kernels)
    /\ (ColumnsMatch /\ EnoughRows) => pc # "raised"

C1_Witness ==
    /\ pc = "done" /\ Len(layers) = MaxLayers
    /\ DimIn(1) > DimOut(1) /\ DimIn(2) < DimOut(2)

Orthonormal(A) ==
    \A k, l \in 1..A.nc :
        SumTo(A.nr, [j \in 1..A.nr |-> A.e[j, k] * A.e[j, l]]) = IF k = l THEN 1 ELSE 0

\* The columns of A are right-singular directions of Xr (eigenvectors of
\* Xr^T Xr), listed by decreasing singular value, and no direction left out has
\* a larger singular value than one taken.
TopSingular(Xr, A) ==
    LET \* G = Xr^T Xr, GA = G A, and the diagonal of A^T G A: the squared singular values
        G == [j \in 1..Xr.nc, l \in 1..Xr.nc |->
                 SumTo(Xr.nr, [i \in 1..Xr.nr |-> Xr.e[i, j] * Xr.e[i, l]])]
        GA == [j \in 1..Xr.nc, k \in 1..A.nc |->
                 SumTo(Xr.nc, [l \in 1..Xr.nc |-> G[j, l] * A.e[l, k]])]
        lam == [k \in 1..A.nc |-> SumTo(A.nr, [j \in 1..A.nr |-> A.e[j, k] * GA[j, k]])]
    IN  /\ A.nr = Xr.nc
        /\ \A k \in 1..A.nc : \A j \in 1..A.nr : GA[j, k] = lam[k] * A.e[j, k]
        /\ \A k \in 1..(A.nc - 1) : lam[k] >= lam[k + 1]
        /\ \A j \in 1..Xr.nc :
               (\A k \in 1..A.nc : A.e[j, k] = 0) =>
                   \A k \in 1..A.nc : G[j, j] <= lam[k]

IdentityPadded(W, d_in, d_out) ==
    /\ W.nr = d_in /\ W.nc = d_out
    /\ \A i \in 1..d_in, j \in 1..d_out : W.e[i, j] = IF i = j THEN 1 ELSE 0

\* C2: the mean function of inner layer i is Identity when d_in = d_out; a
\* non-trainable Linear map whose d_in x d_out weight has orthonormal columns,
\* the top d_out right-singular directions of the running data matrix, when
\* d_in > d_out (the data meeting the builder's preconditions); a non-trainable
\* Linear map with weight [I | 0] when d_in < d_out.
C2_MeanFunctionSelection ==
    [][ InnerAppended =>
          LET mf == layers'[idx].mean_function
              d_in == DimIn(idx)
              d_out == DimOut(idx)
          IN  /\ d_in = d_out => mf = Identity
              /\ d_in > d_out =>
                    /\ mf.type = "Linear" /\ ~mf.trainable
                    /\ (ColumnsMatch /\ EnoughRows) =>
                          /\ mf.A.nr = d_in /\ mf.A.nc = d_out
                          /\ Orthonormal(mf.A)
                          /\ TopSingular(X_running, mf.A)
              /\ d_in < d_out =>
                    /\ mf.type = "Linear" /\ ~mf.trainable
                    /\ IdentityPadded(mf.A, d_in, d_out) ]_vars

C2_Witness ==
    /\ ColumnsMatch /\ EnoughRows /\ pc = "done"
    /\ \E i, j \in InnerBuilt :
          /\ DimIn(i) > DimOut(i) /\ layers[i].mean_function.A.nc >= 2
          /\ DimIn(j) < DimOut(j) /\ layers[j].mean_function.type = "Linear"

\* C3 as stated (for X and Z with kernels[0].input_dim columns): after every
\* completed transition with d_in # d_out both running matrices have exactly
\* d_out columns and are the previous ones times W, whatever the row count of
\* X; with d_in = d_out both are unchanged.
C3_ProjectionEveryRowCount ==
    [][ (ColumnsMatch /\ TransitionDone) =>
          LET W == layers'[idx].mean_function.A
          IN  IF DimIn(idx) # DimOut(idx)
              THEN /\ Z_running'.nc = DimOut(idx)
                   /\ X_running'.nc = DimOut(idx)
                   /\ Z_running' = Dot(Z_running, W)
                   /\ X_running' = Dot(X_running, W)
              ELSE UNCHANGED <<Z_running, X_running>> ]_vars

\* C3 amended: the running matrices are the previous ones times W and have W's
\* column count: d_out when the dimension grows, and when it shrinks d_out
\* exactly if the running data matrix has at least d_out rows and d_out
\* columns (otherwise the smaller of its row and column counts).
C3_ProjectionAmended ==
    [][ TransitionDone =>
          LET W == layers'[idx].mean_function.A
              d_in == DimIn(idx)
              d_out == DimOut(idx)
              rank == Min(X_running.nr, X_running.nc)
          IN  IF d_in # d_out
              THEN /\ Z_running' = Dot(Z_running, W)
                   /\ X_running' = Dot(X_running, W)
                   /\ Z_running'.nc = W.nc /\ X_running'.nc = W.nc
                   /\ Z_running'.nr = Z.nr /\ X_running'.nr = X.nr
                   /\ d_in < d_out => W.nc = d_out
                   /\ d_in > d_out => W.nc = Min(d_out, rank)
                   /\ (d_in > d_out /\ ColumnsMatch /\ EnoughRows) => W.nc = d_out
              ELSE UNCHANGED <<Z_running, X_running>> ]_vars

\* a reducing transition was completed on data with fewer rows than d_out
C3_Witness ==
    /\ ColumnsMatch /\ Len(layers) >= 1 /\ Len(kernels) >= 2 /\ idx >= 2
    /\ DimIn(1) > DimOut(1)
    /\ X.nr < DimOut(1)
    /\ Z_running.nc < DimOut(1)
    /\ Z_running = Dot(Z, layers[1].mean_function.A)

\* C4: the final layer holds the last kernel, the running inducing locations
\* as they stand after all transitions, the caller's num_outputs (the column
\* count of Y when none is supplied) and the caller's mean function, whatever
\* the relation between the last kernel's input_dim and the output dimension.
C4_FinalLayer ==
    pc = "done" =>
        LET last == layers[Len(layers)]
        IN  /\ Len(layers) = Len(kernels)
            /\ last.kern = kernels[Len(kernels)]
            /\ last.Z = Z_running
            /\ last.num_outputs = (IF arg_num_outputs = None THEN Yshape[2] ELSE arg_num_outputs[1])
            /\ last.mean_function = mean_function
            /\ last.mean_function.type \notin {"Identity", "Linear"}

C4_Witness ==
    /\ pc = "done" /\ Len(layers) >= 2
    /\ Z_running # Z
    /\ arg_num_outputs = None
    /\ layers[Len(layers)].kern.input_dim = layers[Len(layers)].num_outputs
    /\ layers[Len(layers)].mean_function = CallerMean("Zero")

PreconditionViolated ==
    \/ Len(kernels) = 0
    \/ Z.nr = 0
    \/ Len(kernels) >= 1 /\ (kernels[1].input_dim # X.nc \/ kernels[1].input_dim # Z.nc)

\* C9: with a violated precondition (no kernel, no inducing point, a first
\* kernel whose input_dim is not the column count of X and Z) construction
\* fails before any layer is built and never returns a model.
C9_FailFast == PreconditionViolated => (pc # "done" /\ Len(layers) = 0)

\* C10: under the builder's preconditions every layer is given inducing
\* locations with as many columns as its own kernel's input_dim: the first
\* layer gets Z, and layer i+1 gets layer i's locations, projected through
\* layer i's W when the dimension changes.
C10_InducingColumns ==
    /\ (ColumnsMatch /\ EnoughRows) =>
           \A i \in 1..Len(layers) : layers[i].Z.nc = layers[i].kern.input_dim
    /\ Len(layers) >= 1 => layers[1].Z = Z
    /\ \A i \in 1..(Len(layers) - 1) :
           layers[i + 1].Z = IF DimIn(i) # DimOut(i)
                             THEN Dot(layers[i].Z, layers[i].mean_function.A)
                             ELSE layers[i].Z

C10_Witness ==
    /\ ColumnsMatch /\ EnoughRows /\ pc = "done" /\ Len(layers) = MaxLayers
    /\ DimIn(1) # DimOut(1) /\ DimIn(2) # DimOut(2)
    /\ layers[Len(layers)].Z.nc # Z.nc

\* ================================================================== claims on propagate
Returned == p_out # None
Out == p_out[1]

\* C5 as stated: whatever zs is, the three returned lists hold one entry per
\* layer, in layer order, and every sample has leading axis length S.
C5_OnePerLayerAnyZs ==
    Returned =>
        /\ Len(Out.Fs) = Len(p_in.layers)
        /\ Len(Out.Fmeans) = Len(p_in.layers)
        /\ Len(Out.Fvars) = Len(p_in.layers)
        /\ \A i \in 1..Len(Out.Fs) :
               Out.Fs[i].call.layer = p_in.layers[i].id /\ Out.Fs[i].shape[1] = p_in.S

ZsCoversLayers ==
    \/ p_in.zs = None
    \/ Len(p_in.zs[1]) = 0
    \/ Len(p_in.zs[1]) >= Len(p_in.layers)

\* C5 amended: the three lists have equal length, entry i comes from layer i
\* and every sample has leading axis length S; there is one entry per layer
\* when zs is None, empty or at least as long as the layer sequence, and a
\* non-empty shorter zs cuts the result to its own length.
C5_OnePerLayerAmended ==
    Returned =>
        /\ Len(Out.Fmeans) = Len(Out.Fs) /\ Len(Out.Fvars) = Len(Out.Fs)
        /\ \A i \in 1..Len(Out.Fs) :
               /\ Out.Fs[i].call.layer = p_in.layers[i].id
               /\ Out.Fmeans[i].call.layer = p_in.layers[i].id
               /\ Out.Fvars[i].call.layer = p_in.layers[i].id
               /\ Out.Fs[i].kind = "sample" /\ Out.Fmeans[i].kind = "mean"
               /\ Out.Fvars[i].kind = "var"
               /\ Out.Fs[i].shape[1] = p_in.S
        /\ Len(Out.Fs) = IF ZsCoversLayers THEN Len(p_in.layers) ELSE Len(p_in.zs[1])

C5_Witness ==
    /\ Returned /\ p_in.zs # None
    /\ Len(p_in.zs[1]) >= 1 /\ Len(p_in.zs[1]) < Len(p_in.layers)
    /\ Len(Out.Fs) = Len(p_in.zs[1])
    /\ p_in.S >= 2

\* C6: the layers are called in layer order, each once; the first call gets
\* the input batch replicated S times along a new leading axis, call i+1 gets
\* the sample call i returned, and every call gets the same full_cov.
C6_SampleChaining ==
    Returned =>
        /\ \A i \in 1..Len(Out.Fs) :
               /\ Out.Fs[i].call.layer = p_in.layers[i].id
               /\ Out.Fs[i].call.full_cov = p_in.full_cov
               /\ Out.Fmeans[i].call = Out.Fs[i].call
               /\ Out.Fvars[i].call = Out.Fs[i].call
               /\ i = 1 =>
                     /\ Out.Fs[i].call.input.kind = "tile"
                     /\ Out.Fs[i].call.input.of = p_in.X
                     /\ Out.Fs[i].call.input.shape = <<p_in.S, p_in.X.shape[1], p_in.X.shape[2]>>
               /\ i > 1 =>
                     /\ Out.Fs[i].call.input = Out.Fs[i - 1]
                     /\ Out.Fs[i].call.input.kind = "sample"
        /\ ZsCoversLayers => Len(Out.Fs) = Len(p_in.layers)

C6_Witness ==
    /\ Returned /\ Len(Out.Fs) = MaxLayers /\ p_in.S >= 2 /\ p_in.full_cov
    /\ Out.Fs[MaxLayers].call.input = Out.Fs[MaxLayers - 1]

\* ================================================================== claims on the ELBO
Evaluated == mpc = "evaluated"
Res == m_out[1]
DataRows == m_in.X.shape[1]
BatchRows == IF m_in.minibatch_size = None THEN DataRows ELSE m_in.minibatch_size[1]
NumData == IF m_in.num_data = None THEN DataRows ELSE m_in.num_data[1]

\* C7: the scale factor is num_data (the caller's, else the row count of X)
\* over the batch's row count: 1 when the batch is the whole dataset, 2 when
\* it is half of it, 5 for a 2-row batch of a 10-row dataset.
C7_ScaleFactor ==
    Evaluated =>
        /\ Res.scale.num * BatchRows = Res.scale.den * NumData
        /\ BatchRows = NumData => RatEq(Res.scale, RatInt(1))
        /\ (m_in.num_data = None /\ m_in.minibatch_size = None) => RatEq(Res.scale, RatInt(1))
        /\ 2 * BatchRows = NumData => RatEq(Res.scale, RatInt(2))
        /\ (BatchRows = 2 /\ NumData = 10) => RatEq(Res.scale, RatInt(5))

C7_Witness ==
    /\ Evaluated /\ m_in.num_data = None /\ DataRows = 10
    /\ m_in.minibatch_size = Some(2)
    /\ RatEq(Res.scale, RatInt(5))

\* the sum of every number the likelihood returned
AllVarExp ==
    LET t == Res.E.var_exp
    IN  SumTo(t.shape[3], [d \in 1..t.shape[3] |->
            SumTo(t.shape[1], [s \in 1..t.shape[1] |->
                SumTo(t.shape[2], [n \in 1..t.shape[2] |-> t.v[s, n, d]])])])

\* C8: the objective is L * scale - total_KL; L comes from the last layer's
\* mean and variance, propagated with full_cov false and S = num_samples, the
\* expectations averaged over the sample axis per point and output dimension
\* and then summed; total_KL is the sum of every layer's KL, counted once and
\* not rescaled.
C8_Objective ==
    Evaluated =>
        LET t == Res.E.var_exp
            Fmean == t.args[1]
            Fvar == t.args[2]
            nl == Len(m_in.layers)
            S == m_in.num_samples
        IN  /\ Fmean.kind = "mean" /\ Fvar.kind = "var"
            /\ Fmean.call = Fvar.call
            /\ Fmean.call.layer = m_in.layers[nl].id
            /\ ~Fmean.call.full_cov
            /\ Fmean.shape = <<S, BatchRows, m_in.layers[nl].num_outputs>>
            /\ t.args[3].shape[1] = BatchRows
            /\ Res.E.rows = BatchRows /\ Res.E.cols = m_in.layers[nl].num_outputs
            /\ \A n \in 1..Res.E.rows, d \in 1..Res.E.cols :
                   Res.E.value[n, d].num * S
                       = Res.E.value[n, d].den * SumTo(S, [k \in 1..S |-> t.v[k, n, d]])
            /\ RatEq(Res.L, Rat(AllVarExp, S))
            /\ Res.KL = (nl * (nl + 1)) \div 2 + nl * m_in.seed
            /\ RatEq(Res.objective,
                     Rat(AllVarExp * NumData - Res.KL * S * BatchRows, S * BatchRows))

C8_Witness ==
    /\ Evaluated /\ Len(m_in.layers) = MaxLayers /\ m_in.num_samples >= 2
    /\ BatchRows >= 2 /\ BatchRows < NumData
    /\ Res.E.cols >= 2

====
